---- MODULE Spec2Model ----
(***************************************************************************)
(* A model of SelectiveWebReader (selective_web_reader.py): the rule       *)
(* table and its persistence, URL-to-rule resolution, the fetch-with-retry *)
(* loop, the include/remove selector pipeline and the two URL journals.    *)
(*                                                                         *)
(* Strings (URLs, patterns) are sequences of tokens, so that Python's      *)
(* `pattern in url` is a real substring test.  Markup is a sequence of     *)
(* tag tokens; a parsed document (a soup) is the sequence of its elements  *)
(* in document order, each with its nesting depth.                         *)
(***************************************************************************)
EXTENDS Integers, Sequences, FiniteSets, TLC

VARIABLES
    \* --- the reader object and the files it owns
    url_configs,        \* self.url_configs: dict, as a sequence of entries in key order
    url_configs_file,   \* content of the URL configurations file
    unconfigured_file,  \* content of the unconfigured-URLs journal file
    errored_file,       \* content of the errored-URLs journal file
    html_string,        \* self.html_string (None or markup)
    html_url,           \* the URL of the load_website call that assigned html_string
    url,                \* self.url (None or a URL)
    constructed,        \* "ok" | "TypeError" | "FileNotFoundError": how the
                        \* last construction ended
    \* --- the load_website call in progress
    pc,                 \* "idle" | "attempt" | "sleep"
    selectors,          \* what _get_selectors returned: None or the dict
                        \* stored under a pattern (kept with that pattern);
                        \* None again once the table changed
    max_retries,        \* the call's max_retries
    attempt,            \* _load_html's attempt counter
    errors,             \* _load_html's errors list
    \* --- what the last call did (observations)
    outcome,            \* how the last load_website ended
    asked,              \* the arguments of the _get_selectors call that
                        \* returned selectors (None when the table changed since)
    fetch_ret,          \* the return statement _load_html ended with, and its value
    failures,           \* str(e) of each failed attempt of this _load_html, in order
    attempts,           \* urlopen calls made by the current/last _load_html
    sleeps,             \* time.sleep calls made by the current/last _load_html
    wrote_unconfigured, \* the last step opened the unconfigured journal for writing
    wrote_errored,      \* the last step opened the errored journal for writing
    flushed,            \* the last step rewrote the URL configurations file
    insert_order,       \* patterns in the order they were first registered
    called,             \* the add_new_config / modify_or_add_config call the
                        \* last step made (None when it made none)
    \* --- a _skim_relevant or _make_links_absolute call on its own
    x_pc,               \* "off" | "ready" | "done" | "again"
    x_html,             \* its html argument
    x_selectors,        \* _skim_relevant's selectors argument
    x_base,             \* _make_links_absolute's url argument
    x_selected_html,    \* _skim_relevant's local selected_html (the reduced document)
    x_result,           \* its result: returned markup or the error raised
    x_again,            \* the result of _skim_relevant called on its own result
    \* --- callers that record URLs in the journals at the same time
    c_pc,               \* per caller: "idle" | "read" (between its read and its write)
    c_call,             \* per caller: the journal, the URL and the errors it records
    c_urls,             \* per caller: its local list, as read from the journal file
    overlapped,         \* some caller read a journal that another had read and
                        \* not yet written
    recorded            \* the (journal, URL) pairs whose recording has ended

vars == <<url_configs, url_configs_file, unconfigured_file, errored_file,
          html_string, html_url, url, constructed, pc, selectors, max_retries, attempt,
          errors, outcome, asked, fetch_ret, failures, attempts, sleeps,
          wrote_unconfigured, wrote_errored, flushed, insert_order, called,
          x_pc, x_html, x_selectors, x_base, x_selected_html, x_result,
          x_again, c_pc, c_call, c_urls, overlapped, recorded>>

readerVars == <<url_configs, url_configs_file, unconfigured_file, errored_file,
                html_string, html_url, url, constructed, pc, selectors, max_retries,
                attempt, errors, outcome, asked, fetch_ret, failures, attempts,
                sleeps, wrote_unconfigured, wrote_errored, flushed, insert_order,
                called>>

skimVars == <<x_pc, x_html, x_selectors, x_base, x_selected_html, x_result,
              x_again>>

callerVars == <<c_pc, c_call, c_urls, overlapped, recorded>>

-----------------------------------------------------------------------------
(* Bounds *)

\* most elements in an input document
MaxNodes == 3

\* most tokens in a URL
MaxUrlLen == 2

\* most entries in the rule table
MaxRules == 2

\* largest max_retries a call is given
MaxRetries == 1

-----------------------------------------------------------------------------
(* Python values *)

\* Optional[T]: None is the empty sequence, a value v is <<v>>
None == <<>>

Some(v) == <<v>>

\* the sequences over S of length lo..hi
SeqsOf(S, lo, hi) == UNION {[1..n -> S] : n \in lo..hi}

\* ''.join(parts): the concatenation of a sequence of strings
RECURSIVE Join(_)
Join(parts) ==
    IF parts = <<>> THEN <<>> ELSE Head(parts) \o Join(Tail(parts))

-----------------------------------------------------------------------------
(* Markup: bs4.BeautifulSoup(html, 'html.parser'), select, extract, str,   *)
(* prettify                                                                *)

\* element kinds of the documents considered: tag, class attribute and
\* href attribute (None when the element has none)
ElementKinds ==
    { [tag |-> "article", cls |-> "", href |-> None],
      [tag |-> "script", cls |-> "", href |-> None],
      [tag |-> "nav", cls |-> "", href |-> None],
      [tag |-> "p", cls |-> "", href |-> None],
      [tag |-> "p", cls |-> "ad", href |-> None] }

\* CSS selectors used by the rules, as bs4's select() reads them
SelectorTag(selector) ==
    CASE selector = "article" -> "article"
      [] selector = "script" -> "script"
      [] selector = "nav" -> "nav"
      [] selector = "p" -> "p"
      [] selector = "p.ad" -> "p"

SelectorClass(selector) == IF selector = "p.ad" THEN "ad" ELSE ""

\* Tag matches selector: same tag name and, for tag.class, that class
Matches(selector, node) ==
    /\ node.tag = SelectorTag(selector)
    /\ SelectorClass(selector) # "" => node.cls = SelectorClass(selector)

OpenTag(node) ==
    [k |-> "open", tag |-> node.tag, cls |-> node.cls, href |-> node.href]

CloseTag(node) == [k |-> "close", tag |-> node.tag, cls |-> "", href |-> None]

Newline == [k |-> "nl", tag |-> "", cls |-> "", href |-> None]

\* the end tags of the open elements deeper than depth d, innermost first
CloseDown(stack, d) ==
    [j \in 1..(Len(stack) - d) |-> CloseTag(stack[Len(stack) + 1 - j])]

\* the parser: start tags open an element one level below the enclosing
\* one, end tags close it, whitespace between tags is no element
RECURSIVE ParseFrom(_, _, _)
ParseFrom(html, i, d) ==
    IF i > Len(html) THEN <<>>
    ELSE IF html[i].k = "open"
         THEN <<[tag |-> html[i].tag, cls |-> html[i].cls,
                 href |-> html[i].href, depth |-> d]>>
              \o ParseFrom(html, i + 1, d + 1)
    ELSE IF html[i].k = "close" THEN ParseFrom(html, i + 1, d - 1)
    ELSE ParseFrom(html, i + 1, d)

BeautifulSoup(html) == ParseFrom(html, 1, 0)

\* str(soup): start tag, children, end tag, nothing between the tags
RECURSIVE StrFrom(_, _, _)
StrFrom(soup, i, stack) ==
    IF i > Len(soup) THEN CloseDown(stack, 0)
    ELSE CloseDown(stack, soup[i].depth) \o <<OpenTag(soup[i])>>
         \o StrFrom(soup, i + 1, SubSeq(stack, 1, soup[i].depth) \o <<soup[i]>>)

Str(soup) == StrFrom(soup, 1, <<>>)

\* soup.prettify(): as str(soup), with every tag on a line of its own
RECURSIVE PrettifyTokens(_)
PrettifyTokens(html) ==
    IF html = <<>> THEN <<>>
    ELSE <<Head(html), Newline>> \o PrettifyTokens(Tail(html))

Prettify(soup) == PrettifyTokens(Str(soup))

\* the index of the last element of the subtree rooted at element i
SubtreeEnd(soup, i) ==
    LET later == {j \in (i + 1)..Len(soup) : soup[j].depth <= soup[i].depth}
    IN  IF later = {} THEN Len(soup)
        ELSE (CHOOSE j \in later : \A k \in later : j <= k) - 1

\* the element i with its descendants, as a document of its own
Subtree(soup, i) ==
    [j \in 1..(SubtreeEnd(soup, i) - i + 1) |->
        [soup[i + j - 1] EXCEPT !.depth = @ - soup[i].depth]]

\* soup.select(selector): the matching elements in document order
RECURSIVE SelectFrom(_, _, _)
SelectFrom(soup, selector, i) ==
    IF i > Len(soup) THEN <<>>
    ELSE (IF Matches(selector, soup[i]) THEN <<i>> ELSE <<>>)
         \o SelectFrom(soup, selector, i + 1)

Select(soup, selector) == SelectFrom(soup, selector, 1)

\* for tag in soup.select(selector): tag.extract() -- every matching element
\* leaves the tree with its descendants
RECURSIVE KeepFrom(_, _, _)
KeepFrom(soup, gone, i) ==
    IF i > Len(soup) THEN <<>>
    ELSE (IF i \in gone THEN <<>> ELSE <<soup[i]>>) \o KeepFrom(soup, gone, i + 1)

\* variant: only the first matching element leaves the tree
ExtractFirst(soup, selector) ==
    LET hits == Select(soup, selector)
        gone == IF hits = <<>> THEN {} ELSE hits[1]..SubtreeEnd(soup, hits[1])
    IN  KeepFrom(soup, gone, 1)

ExtractAll(soup, selector) ==
    LET hits == Select(soup, selector)
        gone == UNION {hits[n]..SubtreeEnd(soup, hits[n]) : n \in DOMAIN hits}
    IN  KeepFrom(soup, gone, 1)

-----------------------------------------------------------------------------
(* _skim_relevant *)

\* variant: one query for all selectors, soup.select(','.join(selectors)):
\* each matching element once, in document order
SelectedElementsOneQuery(soup, include_selectors) ==
    LET hit(i) == \E k \in DOMAIN include_selectors :
                      Matches(include_selectors[k], soup[i])
        F[n \in 0..Len(soup)] ==
            IF n = 0 THEN <<>>
            ELSE IF hit(n) THEN Append(F[n - 1], Str(Subtree(soup, n)))
            ELSE F[n - 1]
    IN  F[Len(soup)]

\* [str(tag) for selector in include_selectors for tag in soup.select(selector)]
RECURSIVE SelectedElements(_, _)
SelectedElements(soup, include_selectors) ==
    IF include_selectors = <<>> THEN <<>>
    ELSE LET hits == Select(soup, Head(include_selectors))
         IN  [n \in DOMAIN hits |-> Str(Subtree(soup, hits[n]))]
             \o SelectedElements(soup, Tail(include_selectors))

\* selected_html = ''.join(selected_elements)
SelectedHtml(html, include_selectors) ==
    Join(SelectedElements(BeautifulSoup(html), include_selectors))

\* the local selected_soup before the first pass of the removal loop
Unbound == [bound |-> FALSE, soup |-> <<>>]

\* for selector in remove_selectors:
\*     selected_soup = bs4.BeautifulSoup(selected_html, 'html.parser')
\*     for tag in selected_soup.select(selector): tag.extract()
RECURSIVE RemoveLoop(_, _, _)
RemoveLoop(selected_html, remove_selectors, selected_soup) ==
    IF remove_selectors = <<>> THEN selected_soup
    ELSE RemoveLoop(selected_html, Tail(remove_selectors),
                    [bound |-> TRUE,
                     soup |-> ExtractAll(BeautifulSoup(selected_html),
                                         Head(remove_selectors))])

Returned(value) == [raised |-> "", value |-> value]

Raised(exception) == [raised |-> exception, value |-> <<>>]

\* return selected_soup.prettify(): a name never bound raises
SkimRelevant(html, rule) ==
    LET selected_html == SelectedHtml(html, rule.include_selectors)
        selected_soup == RemoveLoop(selected_html, rule.remove_selectors, Unbound)
    IN  IF selected_soup.bound THEN Returned(Prettify(selected_soup.soup))
        ELSE Raised("UnboundLocalError")

-----------------------------------------------------------------------------
(* Inputs of a _skim_relevant call *)

\* nesting: the first element is at depth 0, a next one at most one deeper;
\* a script holds text only (the parser reads its content as character
\* data), so no element lies in one
WellNested(soup) ==
    /\ soup # <<>> => soup[1].depth = 0
    /\ \A i \in 1..(Len(soup) - 1) :
          /\ soup[i + 1].depth <= soup[i].depth + 1
          /\ soup[i].tag = "script" => soup[i + 1].depth <= soup[i].depth

NodesOf(kinds) ==
    {[tag |-> e.tag, cls |-> e.cls, href |-> e.href, depth |-> d] :
        e \in kinds, d \in 0..(MaxNodes - 1)}

NodeSet == NodesOf(ElementKinds)

DocumentsOf(kinds) == {soup \in SeqsOf(NodesOf(kinds), 0, MaxNodes) : WellNested(soup)}

Documents == DocumentsOf(ElementKinds)

IncludeLists ==
    { <<>>, <<"article">>, <<"p">>, <<"nav">>, <<"article", "p">>,
      <<"p", "article">> }

RemoveLists ==
    { <<>>, <<"script">>, <<"nav">>, <<"script", "nav">>, <<"nav", "script">>,
      <<"p.ad">> }

SkimRules ==
    {[include_selectors |-> inc, remove_selectors |-> rem] :
        inc \in IncludeLists, rem \in RemoveLists}

-----------------------------------------------------------------------------
(* Strings and the url_configs dict *)

\* Python's `pattern in url` on strings
IsSubstring(pattern, string) ==
    \E i \in 0..(Len(string) - Len(pattern)) :
        SubSeq(string, i + 1, i + Len(pattern)) = pattern

\* the reserved pattern "_default_"
DEFAULT == <<"_default_">>

\* d.keys()
Keys(d) == {d[i].pattern : i \in DOMAIN d}

\* the value stored under a key: {"include_selectors": .., "remove_selectors": ..}
RuleOf(r) ==
    [include_selectors |-> r.include_selectors,
     remove_selectors |-> r.remove_selectors]

\* d[key]: the dict stored under the key, kept with its key
DictGet(d, key) == d[CHOOSE i \in DOMAIN d : d[i].pattern = key]

\* variant: the key is deleted and inserted again, so it goes last
DictSetReinsert(d, key, rule) ==
    LET entry == [pattern |-> key,
                  include_selectors |-> rule.include_selectors,
                  remove_selectors |-> rule.remove_selectors]
        others == {i \in DOMAIN d : d[i].pattern # key}
        F[n \in 0..Len(d)] ==
            IF n = 0 THEN <<>>
            ELSE IF n \in others THEN Append(F[n - 1], d[n]) ELSE F[n - 1]
    IN  Append(F[Len(d)], entry)

\* variant: the key is put before the others
DictSetFront(d, key, rule) ==
    LET entry == [pattern |-> key,
                  include_selectors |-> rule.include_selectors,
                  remove_selectors |-> rule.remove_selectors]
        others == {i \in DOMAIN d : d[i].pattern # key}
        F[n \in 0..Len(d)] ==
            IF n = 0 THEN <<>>
            ELSE IF n \in others THEN Append(F[n - 1], d[n]) ELSE F[n - 1]
    IN  <<entry>> \o F[Len(d)]

\* d[key] = rule: a known key keeps its place, a new key goes last
DictSet(d, key, rule) ==
    LET entry == [pattern |-> key,
                  include_selectors |-> rule.include_selectors,
                  remove_selectors |-> rule.remove_selectors]
    IN  IF key \in Keys(d)
        THEN [i \in DOMAIN d |-> IF d[i].pattern = key THEN entry ELSE d[i]]
        ELSE Append(d, entry)

-----------------------------------------------------------------------------
(* The rule table: _create_config, _add_config, _add_new_config,           *)
(* _update_url_configs_file, _load_url_configs_file                        *)

CreateConfig(url_pattern, include_selectors, remove_selectors) ==
    [url_pattern |-> <<url_pattern>>,
     include_selectors |-> include_selectors,
     remove_selectors |-> remove_selectors]

\* for url_pattern in url_patterns: register it unless it is a key already
RECURSIVE AddConfigLoop(_, _, _)
AddConfigLoop(d, url_patterns, url_config) ==
    IF url_patterns = <<>> THEN d
    ELSE AddConfigLoop(IF Head(url_patterns) \notin Keys(d)
                       THEN DictSet(d, Head(url_patterns), RuleOf(url_config))
                       ELSE d,
                       Tail(url_patterns), url_config)

\* variant: no membership test, a later record's rule replaces an earlier one's
AddConfigOverwriting(d, url_config) ==
    LET url_patterns == url_config.url_pattern
        F[n \in 0..Len(url_patterns)] ==
            IF n = 0 THEN d
            ELSE DictSet(F[n - 1], url_patterns[n], RuleOf(url_config))
    IN  F[Len(url_patterns)]

AddConfig(d, url_config) == AddConfigLoop(d, url_config.url_pattern, url_config)

\* variant: the assignment is made whether or not a pattern matched
AddNewConfigDictAlways(d, url_config, update_entry) ==
    LET url_patterns == url_config.url_pattern
    IN  DictSet(d, url_patterns[Len(url_patterns)], RuleOf(url_config))

\* matched: some pattern of the config is a key; the assignment after the
\* loop uses the loop variable, which holds the last pattern
AddNewConfigDict(d, url_config, update_entry) ==
    LET url_patterns == url_config.url_pattern
        matched == \E i \in DOMAIN url_patterns : url_patterns[i] \in Keys(d)
    IN  IF ~matched \/ update_entry
        THEN DictSet(d, url_patterns[Len(url_patterns)], RuleOf(url_config))
        ELSE d

\* a JSON file holding a list of records, as its author writes it
ListFile(records) == [json |-> "array", records |-> records, members |-> <<>>]

\* no file at the path
MissingFile == [json |-> "missing", records |-> <<>>, members |-> <<>>]

\* json.dump(self.url_configs, f): the dict goes out as a JSON object whose
\* members are the patterns, in key order
UpdateUrlConfigsFile(d) ==
    [json |-> "object", records |-> <<>>, members |-> d]

RECURSIVE AddConfigs(_, _)
AddConfigs(d, configs) ==
    IF configs = <<>> THEN d
    ELSE AddConfigs(AddConfig(d, Head(configs)), Tail(configs))

\* if not Path(url_configs_file).exists(): log.error(..); return
\* configs = json.load(f); for config in configs: self._add_config(config).
\* Iterating a JSON object yields its keys, and _add_config indexes a key
\* (a str) with "url_pattern".
LoadUrlConfigsFile(d, file) ==
    IF file.json = "missing" THEN Returned(d)
    ELSE IF file.json = "array" THEN Returned(AddConfigs(d, file.records))
    ELSE IF file.members = <<>> THEN Returned(d)
    ELSE Raised("TypeError")

\* variant: no test that the file exists before it is loaded
LoadOrRaiseUnchecked(file) == LoadUrlConfigsFile(<<>>, file)

\* self.url_configs = {}; if the file exists: load it, else: raise
\* FileNotFoundError
LoadOrRaise(file) ==
    IF file.json # "missing" THEN LoadUrlConfigsFile(<<>>, file)
    ELSE Raised("FileNotFoundError")

-----------------------------------------------------------------------------
(* _get_selectors and the unconfigured-URLs journal *)

\* for url_pattern in self.url_configs.keys(): if url_pattern in url: return ..
RECURSIVE MatchLoop(_, _, _)
MatchLoop(d, u, i) ==
    IF i > Len(d) THEN None
    ELSE IF IsSubstring(d[i].pattern, u) THEN Some(DictGet(d, d[i].pattern))
    ELSE MatchLoop(d, u, i + 1)

\* the value _get_selectors returns
GetSelectorsReturn(d, u, include_default) ==
    LET matched == MatchLoop(d, u, 1)
    IN  IF matched # None THEN matched
        ELSE IF DEFAULT \in Keys(d) /\ include_default
             THEN Some(DictGet(d, DEFAULT))
        ELSE None

\* a journal file that was never written does not exist
NoFile == [exists |-> FALSE, entries |-> <<>>]

\* open + json.load, [] on FileNotFoundError
ReadJournal(file) == IF file.exists THEN file.entries ELSE <<>>

JournalUrls(file) == {ReadJournal(file)[i].url : i \in DOMAIN ReadJournal(file)}

\* variant: no membership test, every call appends
RecordUnconfiguredAlways(file, u) ==
    [wrote |-> TRUE,
     file |-> [exists |-> TRUE,
               entries |-> Append(ReadJournal(file), [url |-> u])]]

\* if url not in [u['url'] for u in urls]: append and rewrite the file
RecordUnconfigured(file, u) ==
    IF u \notin JournalUrls(file)
    THEN [wrote |-> TRUE,
          file |-> [exists |-> TRUE,
                    entries |-> Append(ReadJournal(file), [url |-> u])]]
    ELSE [wrote |-> FALSE, file |-> file]

-----------------------------------------------------------------------------
(* _load_html's journal, _make_links_absolute and the end of load_website  *)

\* variant: a known URL has its entry's errors replaced by the new ones
RecordErroredUpdates(file, u, errs) ==
    IF u \notin JournalUrls(file)
    THEN [wrote |-> TRUE,
          file |-> [exists |-> TRUE,
                    entries |-> Append(ReadJournal(file),
                                       [url |-> u, errors |-> errs])]]
    ELSE [wrote |-> TRUE,
          file |-> [exists |-> TRUE,
                    entries |-> [i \in DOMAIN ReadJournal(file) |->
                                   IF ReadJournal(file)[i].url = u
                                   THEN [url |-> u, errors |-> errs]
                                   ELSE ReadJournal(file)[i]]]]

\* variant: a URL of the unconfigured journal is not recorded again
RecordErroredUnlessUnconfigured(file, u, errs) ==
    IF u \notin JournalUrls(file) \cup JournalUrls(unconfigured_file)
    THEN [wrote |-> TRUE,
          file |-> [exists |-> TRUE,
                    entries |-> Append(ReadJournal(file),
                                       [url |-> u, errors |-> errs])]]
    ELSE [wrote |-> FALSE, file |-> file]

\* if url not in [u['url'] for u in errored_urls]: append and rewrite
RecordErrored(file, u, errs) ==
    IF u \notin JournalUrls(file)
    THEN [wrote |-> TRUE,
          file |-> [exists |-> TRUE,
                    entries |-> Append(ReadJournal(file),
                                       [url |-> u, errors |-> errs])]]
    ELSE [wrote |-> FALSE, file |-> file]

\* variant: while attempt < max_retries
LoopContinuesStrict(n, retries) == n < retries

\* while attempt <= max_retries
LoopContinues(n, retries) == n <= retries

\* no _load_html has returned yet
NotReturned == [ended |-> "", value |-> None]

\* return html, inside the with block
LoadHtmlReturn(html) == [ended |-> "return html", value |-> Some(html)]

\* return None, after the loop and the journal: the errors stay behind
LoadHtmlExhaustedReturn(errs) == [ended |-> "return None", value |-> None]

\* A URL or a reference is the sequence of its parts: scheme and authority
\* in one token ("https://x.test"), then "/" and path segments.
Origins == {"https://x.test", "https://y.test"}

\* scheme and authority of a URL, empty when it has none
Origin(string) ==
    IF string # <<>> /\ Head(string) \in Origins THEN <<Head(string)>> ELSE <<>>

\* the path of a URL
PathOf(string) == SubSeq(string, Len(Origin(string)) + 1, Len(string))

\* the path up to and with its last "/": base_parts without the last part
BaseParts(path) ==
    LET slashes == {i \in DOMAIN path : path[i] = "/"}
    IN  IF slashes = {} THEN <<>>
        ELSE SubSeq(path, 1, CHOOSE i \in slashes : \A j \in slashes : j <= i)

\* variant: the reference is appended to the base
UrljoinAppended(base, reference) == base \o reference

\* urllib.parse.urljoin(base, url) for references without query, fragment
\* and dot segments: a reference with a scheme is returned as it is, a
\* rooted path replaces the base's path, any other path replaces the last
\* part of the base's path
Urljoin(base, reference) ==
    IF base = <<>> THEN reference
    ELSE IF reference = <<>> THEN base
    ELSE IF Origin(reference) # <<>> THEN reference
    ELSE LET path == IF Head(reference) = "/" THEN reference
                     ELSE BaseParts(PathOf(base)) \o reference
         IN  Origin(base)
             \o (IF Origin(base) # <<>> /\ Head(path) # "/" THEN <<"/">> ELSE <<>>)
             \o path

\* soup.find_all('a', href=True)
FindAllAHref(soup) == {i \in DOMAIN soup : soup[i].tag = "a" /\ soup[i].href # None}

\* for link in soup.find_all('a', href=True):
\*     link['href'] = urljoin(url, link['href'])
AbsoluteLinks(soup, base) ==
    [i \in DOMAIN soup |->
        IF i \in FindAllAHref(soup)
        THEN [soup[i] EXCEPT !.href = Some(Urljoin(base, soup[i].href[1]))]
        ELSE soup[i]]

\* variant: no markup is read as empty markup
MakeLinksAbsoluteLenient(html, base) ==
    IF html = None THEN Returned(<<>>)
    ELSE Returned(Str(AbsoluteLinks(BeautifulSoup(html[1]), base)))

\* soup = BeautifulSoup(html); rewrite each a[href]; return str(soup).
\* BeautifulSoup(None) raises TypeError.
MakeLinksAbsolute(html, base) ==
    IF html = None THEN Raised("TypeError")
    ELSE Returned(Str(AbsoluteLinks(BeautifulSoup(html[1]), base)))

\* "".join([str(element) for element in selected_elements]) over a str:
\* its characters, joined again
JoinCharacters(string) == Join([i \in DOMAIN string |-> <<string[i]>>])

\* variant: when the skim fails the page is kept as it was fetched
ProcessHtmlKeepingPage(html, base, rule) ==
    LET absolute == MakeLinksAbsolute(html, base)
    IN  IF absolute.raised # "" THEN absolute
        ELSE LET skimmed == SkimRelevant(absolute.value, rule)
             IN  IF skimmed.raised # "" THEN Returned(absolute.value)
                 ELSE Returned(JoinCharacters(skimmed.value))

\* load_website from the return of _load_html on: absolutize, skim, join
ProcessHtml(html, base, rule) ==
    LET absolute == MakeLinksAbsolute(html, base)
    IN  IF absolute.raised # "" THEN absolute
        ELSE LET skimmed == SkimRelevant(absolute.value, rule)
             IN  IF skimmed.raised # "" THEN skimmed
                 ELSE Returned(JoinCharacters(skimmed.value))

-----------------------------------------------------------------------------
(* Inputs of the reader's operations *)

Tokens == {"example.com", "/blog", "other.org", "_default_"}

Urls == SeqsOf(Tokens, 1, MaxUrlLen)

\* the patterns add_new_config and modify_or_add_config are called with
Patterns == { <<"example.com">>, <<"/blog">>, DEFAULT }

\* the URLs _get_selectors is called with: one in which ordinary patterns
\* occur, one in which only the text "_default_" occurs
CallUrls == { <<"example.com", "/blog">>, <<"other.org", "_default_">> }

\* the URLs load_website is called with
LoadUrls == { <<"example.com", "/blog">>, <<"other.org">> }

RuleBlog ==
    [include_selectors |-> <<"article">>, remove_selectors |-> <<"script", "nav">>]

RuleBare == [include_selectors |-> <<"p">>, remove_selectors |-> <<>>]

Rules == {RuleBlog, RuleBare}

Record(url_patterns, rule) ==
    [url_pattern |-> url_patterns,
     include_selectors |-> rule.include_selectors,
     remove_selectors |-> rule.remove_selectors]

\* URL configuration files a reader is constructed from
InitFiles ==
    { ListFile(<<>>),
      ListFile(<<Record(<<(<<"/blog">>), (<<"/blog">>)>>, RuleBlog)>>),
      ListFile(<<Record(<<(<<"example.com">>), (<<"example.com", "/blog">>)>>, RuleBare),
                 Record(<<(<<"/blog">>), (<<"example.com">>)>>, RuleBlog)>>),
      ListFile(<<Record(<<DEFAULT>>, RuleBare),
                 Record(<<(<<"example.com">>)>>, RuleBlog)>>) }

\* the pages a server answers with
PageBlog ==
    << [tag |-> "article", cls |-> "", href |-> None, depth |-> 0],
       [tag |-> "script", cls |-> "", href |-> None, depth |-> 1],
       [tag |-> "nav", cls |-> "", href |-> None, depth |-> 0] >>

PageParas ==
    << [tag |-> "p", cls |-> "", href |-> None, depth |-> 0],
       [tag |-> "p", cls |-> "ad", href |-> None, depth |-> 0] >>

Pages == {Str(PageBlog), Str(PageParas)}

\* the except clauses of _load_html, by the exception each catches
FailureClasses == {"IncompleteRead", "URLError", "Exception"}

\* str(e) of the exceptions raised
ErrorTexts == {"incomplete read", "timed out"}

\* the patterns of a list of records, in the order a reader meets them
RECURSIVE PatternsInOrder(_)
PatternsInOrder(records) ==
    IF records = <<>> THEN <<>>
    ELSE Head(records).url_pattern \o PatternsInOrder(Tail(records))

\* a sequence without its repeated elements, first occurrences kept
FirstOccurrences(seq) ==
    LET firsts == {i \in DOMAIN seq : \A j \in 1..(i - 1) : seq[j] # seq[i]}
        F[n \in 0..Len(seq)] ==
            IF n = 0 THEN <<>>
            ELSE IF n \in firsts THEN Append(F[n - 1], seq[n]) ELSE F[n - 1]
    IN  F[Len(seq)]

-----------------------------------------------------------------------------
(* Construction: __init__ *)

\* self.url_configs = {}; self._load_url_configs_file(..); html_string = url = None
Construct(file) ==
    LET loaded == LoadOrRaise(file)
    IN  /\ url_configs_file' = file
        /\ constructed' = IF loaded.raised = "" THEN "ok" ELSE loaded.raised
        /\ url_configs' = loaded.value
        /\ insert_order' =
               IF loaded.raised = "" THEN FirstOccurrences(PatternsInOrder(file.records))
               ELSE <<>>
        /\ html_string' = None
        /\ html_url' = None
        /\ url' = None
        /\ pc' = "idle"
        /\ selectors' = None
        /\ max_retries' = 0
        /\ attempt' = 0
        /\ errors' = <<>>
        /\ outcome' = "none"
        /\ asked' = None
        /\ fetch_ret' = NotReturned
        /\ failures' = <<>>
        /\ attempts' = 0
        /\ sleeps' = 0
        /\ wrote_unconfigured' = FALSE
        /\ wrote_errored' = FALSE
        /\ flushed' = FALSE
        /\ called' = None

InitReader ==
    /\ url_configs_file \in InitFiles \cup {MissingFile}
    /\ constructed = IF LoadOrRaise(url_configs_file).raised = "" THEN "ok"
                     ELSE LoadOrRaise(url_configs_file).raised
    /\ url_configs = LoadOrRaise(url_configs_file).value
    /\ insert_order = FirstOccurrences(PatternsInOrder(url_configs_file.records))
    /\ unconfigured_file = NoFile
    /\ errored_file = NoFile
    /\ html_string = None
    /\ html_url = None
    /\ url = None
    /\ pc = "idle"
    /\ selectors = None
    /\ max_retries = 0
    /\ attempt = 0
    /\ errors = <<>>
    /\ outcome = "none"
    /\ asked = None
    /\ fetch_ret = NotReturned
    /\ failures = <<>>
    /\ attempts = 0
    /\ sleeps = 0
    /\ wrote_unconfigured = FALSE
    /\ wrote_errored = FALSE
    /\ flushed = FALSE
    /\ called = None

\* the callers that share the journal files
Callers == {1, 2}

\* no journal is being recorded in
NoCall == [journal |-> "", url |-> <<>>, errors |-> <<>>]

NoCallers ==
    /\ c_pc = [c \in Callers |-> "idle"]
    /\ c_call = [c \in Callers |-> NoCall]
    /\ c_urls = [c \in Callers |-> <<>>]
    /\ overlapped = FALSE
    /\ recorded = {}

NoSkim ==
    /\ x_pc = "off"
    /\ x_html = <<>>
    /\ x_selectors = RuleBare
    /\ x_base = None
    /\ x_selected_html = <<>>
    /\ x_result = Returned(<<>>)
    /\ x_again = Returned(<<>>)

Init == InitReader /\ NoSkim /\ NoCallers

\* a new reader on the files the last one left
NewReader ==
    /\ pc = "idle"
    /\ Construct(url_configs_file)
    /\ UNCHANGED <<unconfigured_file, errored_file>>
    /\ UNCHANGED skimVars
    /\ UNCHANGED callerVars

-----------------------------------------------------------------------------
(* add_new_config, modify_or_add_config *)

AddOrModify(url_pattern, rule, update_file, update_entry) ==
    LET config == CreateConfig(url_pattern, rule.include_selectors,
                               rule.remove_selectors)
        d == AddNewConfigDict(url_configs, config, update_entry)
    IN  /\ constructed = "ok"
        /\ pc = "idle"
        /\ url_pattern \in Keys(url_configs) \/ Len(url_configs) < MaxRules
        /\ url_configs' = d
        /\ url_configs_file' =
               IF update_file THEN UpdateUrlConfigsFile(d) ELSE url_configs_file
        /\ flushed' = update_file
        /\ insert_order' =
               IF url_pattern \in Keys(url_configs) THEN insert_order
               ELSE Append(insert_order, url_pattern)
        /\ wrote_unconfigured' = FALSE
        /\ wrote_errored' = FALSE
        /\ asked' = None
        /\ selectors' = None
        /\ called' = Some([name |-> IF update_entry THEN "modify_or_add_config"
                                    ELSE "add_new_config",
                           url_pattern |-> url_pattern,
                           rule |-> rule])
        /\ UNCHANGED <<unconfigured_file, errored_file, html_string, html_url, url,
                       constructed, max_retries, attempt, errors, outcome,
                       fetch_ret, failures, attempts, sleeps, pc>>
        /\ UNCHANGED skimVars
        /\ UNCHANGED callerVars

AddNewConfig ==
    \E url_pattern \in Patterns, rule \in Rules, update_file \in BOOLEAN :
        AddOrModify(url_pattern, rule, update_file, FALSE)

ModifyOrAddConfig ==
    \E url_pattern \in Patterns, rule \in Rules, update_file \in BOOLEAN :
        AddOrModify(url_pattern, rule, update_file, TRUE)

-----------------------------------------------------------------------------
(* _get_selectors *)

\* variant: the journal is left alone
UnconfiguredAfterNever(d, file, u) == [wrote |-> FALSE, file |-> file]

\* variant: a table with the reserved pattern keeps the journal as it is
UnconfiguredAfterUnlessDefault(d, file, u) ==
    IF MatchLoop(d, u, 1) # None \/ DEFAULT \in Keys(d)
    THEN [wrote |-> FALSE, file |-> file]
    ELSE RecordUnconfigured(file, u)

\* the journal after _get_selectors(u): written only past the pattern loop
UnconfiguredAfter(d, file, u) ==
    IF MatchLoop(d, u, 1) # None THEN [wrote |-> FALSE, file |-> file]
    ELSE RecordUnconfigured(file, u)

GetSelectors ==
    \E u \in CallUrls, include_default \in BOOLEAN :
        /\ constructed = "ok"
        /\ pc = "idle"
        /\ selectors' = GetSelectorsReturn(url_configs, u, include_default)
        /\ asked' = Some([url |-> u, include_default |-> include_default])
        /\ unconfigured_file' = UnconfiguredAfter(url_configs, unconfigured_file, u).file
        /\ wrote_unconfigured' = UnconfiguredAfter(url_configs, unconfigured_file, u).wrote
        /\ wrote_errored' = FALSE
        /\ flushed' = FALSE
        /\ called' = None
        /\ UNCHANGED <<url_configs, url_configs_file, errored_file, html_string, html_url,
                       url, constructed, pc, max_retries, attempt, errors,
                       outcome, fetch_ret, failures, attempts, sleeps,
                       insert_order>>
        /\ UNCHANGED skimVars
        /\ UNCHANGED callerVars

NextRules == AddNewConfig \/ ModifyOrAddConfig \/ NewReader \/ GetSelectors

SpecRules == Init /\ [][NextRules]_vars

\* the add and modify calls alone
NextTable == AddNewConfig \/ ModifyOrAddConfig

SpecTable == Init /\ [][NextTable]_vars

-----------------------------------------------------------------------------
(* load_website, with _load_html's retry loop one attempt at a time *)

\* self._set_url(url); selectors = self._get_selectors(..); if selectors:
\* enter _load_html (attempt = 0, errors = []), else raise ValueError
LoadWebsite ==
    \E u \in LoadUrls, retries \in 0..MaxRetries, download_unconfigured \in BOOLEAN :
        LET found == GetSelectorsReturn(url_configs, u, download_unconfigured)
            journal == UnconfiguredAfter(url_configs, unconfigured_file, u)
        IN  /\ constructed = "ok"
            /\ pc = "idle"
            /\ url' = Some(u)
            /\ selectors' = found
            /\ asked' = Some([url |-> u, include_default |-> download_unconfigured])
            /\ unconfigured_file' = journal.file
            /\ wrote_unconfigured' = journal.wrote
            /\ max_retries' = retries
            /\ attempt' = 0
            /\ errors' = <<>>
            /\ attempts' = 0
            /\ sleeps' = 0
            /\ fetch_ret' = NotReturned
            /\ failures' = <<>>
            /\ pc' = IF found # None THEN "attempt" ELSE "idle"
            /\ outcome' = IF found # None THEN "running" ELSE "ValueError"
            /\ wrote_errored' = FALSE
            /\ flushed' = FALSE
            /\ UNCHANGED <<url_configs, url_configs_file, errored_file,
                           html_string, html_url, constructed, insert_order, called>>
            /\ UNCHANGED skimVars
            /\ UNCHANGED callerVars

\* urlopen and read succeed: _load_html returns the page and load_website
\* runs to its end
UrlopenReturns ==
    \E page \in Pages :
        LET ret == LoadHtmlReturn(page)
            done == ProcessHtml(ret.value, url[1], RuleOf(selectors[1]))
        IN  /\ pc = "attempt"
            /\ LoopContinues(attempt, max_retries)
            /\ attempts' = attempts + 1
            /\ fetch_ret' = ret
            /\ html_string' = IF done.raised = "" THEN Some(done.value) ELSE html_string
            /\ html_url' = IF done.raised = "" THEN url ELSE html_url
            /\ outcome' = IF done.raised = "" THEN "returned" ELSE done.raised
            /\ pc' = "idle"
            /\ wrote_unconfigured' = FALSE
            /\ wrote_errored' = FALSE
            /\ flushed' = FALSE
            /\ UNCHANGED <<url_configs, url_configs_file, unconfigured_file,
                           errored_file, url, constructed, selectors, max_retries,
                           attempt, errors, asked, failures, sleeps, insert_order,
                           called>>
            /\ UNCHANGED skimVars
            /\ UNCHANGED callerVars

\* errors.append(str(e)), the body of each of the three except clauses
Caught(errs, class, text) ==
    CASE class = "IncompleteRead" -> Append(errs, text)
      [] class = "URLError" -> Append(errs, text)
      [] OTHER -> Append(errs, text)

\* urlopen or read raises: the except clause that catches it appends str(e)
UrlopenRaises ==
    \E class \in FailureClasses, text \in ErrorTexts :
        /\ pc = "attempt"
        /\ LoopContinues(attempt, max_retries)
        /\ attempts' = attempts + 1
        /\ errors' = Caught(errors, class, text)
        /\ failures' = Append(failures, text)
        /\ pc' = "sleep"
        /\ wrote_unconfigured' = FALSE
        /\ wrote_errored' = FALSE
        /\ flushed' = FALSE
        /\ UNCHANGED <<url_configs, url_configs_file, unconfigured_file,
                       errored_file, html_string, html_url, url, constructed, selectors,
                       max_retries, attempt, outcome, asked, fetch_ret, sleeps,
                       insert_order, called>>
        /\ UNCHANGED skimVars
        /\ UNCHANGED callerVars

\* variant: the counter is advanced in the except clause and after it
AttemptIncrementedTwice(n) == n + 2

\* attempt += 1
AttemptIncremented(n) == n + 1

\* time.sleep(wait_inbetween); attempt += 1
Sleep ==
    /\ pc = "sleep"
    /\ sleeps' = sleeps + 1
    /\ attempt' = AttemptIncremented(attempt)
    /\ pc' = "attempt"
    /\ wrote_unconfigured' = FALSE
    /\ wrote_errored' = FALSE
    /\ flushed' = FALSE
    /\ UNCHANGED <<url_configs, url_configs_file, unconfigured_file,
                   errored_file, html_string, html_url, url, constructed, selectors,
                   max_retries, errors, outcome, asked, fetch_ret, failures,
                   attempts, insert_order, called>>
    /\ UNCHANGED skimVars
    /\ UNCHANGED callerVars

\* the loop is over: journal the URL, return None, and load_website runs on
\* with html = None
Exhausted ==
    LET journal == RecordErrored(errored_file, url[1], errors)
        ret == LoadHtmlExhaustedReturn(errors)
        done == ProcessHtml(ret.value, url[1], RuleOf(selectors[1]))
    IN  /\ pc = "attempt"
        /\ ~LoopContinues(attempt, max_retries)
        /\ errored_file' = journal.file
        /\ wrote_errored' = journal.wrote
        /\ fetch_ret' = ret
        /\ html_string' = IF done.raised = "" THEN Some(done.value) ELSE html_string
        /\ html_url' = IF done.raised = "" THEN url ELSE html_url
        /\ outcome' = IF done.raised = "" THEN "returned" ELSE done.raised
        /\ pc' = "idle"
        /\ wrote_unconfigured' = FALSE
        /\ flushed' = FALSE
        /\ UNCHANGED <<url_configs, url_configs_file, unconfigured_file, url,
                       constructed, selectors, max_retries, attempt, errors,
                       asked, failures, attempts, sleeps, insert_order, called>>
        /\ UNCHANGED skimVars
        /\ UNCHANGED callerVars

Next == LoadWebsite \/ UrlopenReturns \/ UrlopenRaises \/ Sleep \/ Exhausted

Spec == Init /\ [][Next]_vars

\* _load_html goes on: an attempt that returns no page raises (urlopen is
\* given a timeout), the sleep ends, the code after the loop runs
FetchGoesOn == UrlopenRaises \/ Sleep \/ Exhausted

\* load_website calls whose fetch is not left waiting for ever
SpecFetch == Init /\ [][Next]_vars /\ WF_vars(FetchGoesOn)

-----------------------------------------------------------------------------
(* A _skim_relevant call on its own *)

\* no reader takes part
NoReader ==
    /\ url_configs_file = ListFile(<<>>)
    /\ constructed = "ok"
    /\ url_configs = <<>>
    /\ insert_order = <<>>
    /\ unconfigured_file = NoFile
    /\ errored_file = NoFile
    /\ html_string = None
    /\ html_url = None
    /\ url = None
    /\ pc = "idle"
    /\ selectors = None
    /\ max_retries = 0
    /\ attempt = 0
    /\ errors = <<>>
    /\ outcome = "none"
    /\ asked = None
    /\ fetch_ret = NotReturned
    /\ failures = <<>>
    /\ attempts = 0
    /\ sleeps = 0
    /\ wrote_unconfigured = FALSE
    /\ wrote_errored = FALSE
    /\ flushed = FALSE
    /\ called = None

InitSkim ==
    /\ NoReader
    /\ x_pc = "ready"
    /\ x_html \in {Str(soup) : soup \in Documents}
    /\ x_selectors \in SkimRules
    /\ x_base = None
    /\ x_selected_html = <<>>
    /\ x_result = Returned(<<>>)
    /\ x_again = Returned(<<>>)
    /\ NoCallers

SkimCall ==
    /\ x_pc = "ready"
    /\ x_selected_html' = SelectedHtml(x_html, x_selectors.include_selectors)
    /\ x_result' = SkimRelevant(x_html, x_selectors)
    /\ x_pc' = "done"
    /\ UNCHANGED <<x_html, x_selectors, x_base, x_again>>
    /\ UNCHANGED readerVars
    /\ UNCHANGED callerVars

\* _skim_relevant(result, selectors), with the result of the first call
SkimAgain ==
    /\ x_pc = "done"
    /\ x_result.raised = ""
    /\ x_again' = SkimRelevant(x_result.value, x_selectors)
    /\ x_pc' = "again"
    /\ UNCHANGED <<x_html, x_selectors, x_base, x_selected_html, x_result>>
    /\ UNCHANGED readerVars
    /\ UNCHANGED callerVars

NextSkim == SkimCall \/ SkimAgain

SpecSkim == InitSkim /\ [][NextSkim]_vars

-----------------------------------------------------------------------------
(* A _make_links_absolute call on its own *)

\* references: a rooted path, a one-segment path, an absolute URL
References ==
    { <<"/", "a", "/", "b">>, <<"e">>, <<"https://y.test", "/", "z">> }

\* <a href=..> with each reference, <a> without href, <p>
LinkKinds ==
    {[tag |-> "a", cls |-> "", href |-> Some(r)] : r \in References}
    \cup { [tag |-> "a", cls |-> "", href |-> None],
           [tag |-> "p", cls |-> "", href |-> None] }

\* base URLs: with a path, without one
BaseUrls == { <<"https://x.test", "/", "c", "/", "d">>, <<"https://x.test">> }

InitLinks ==
    /\ NoReader
    /\ x_pc = "ready"
    /\ x_html \in {Str(soup) : soup \in DocumentsOf(LinkKinds)}
    /\ x_selectors = RuleBare
    /\ x_base \in {Some(base) : base \in BaseUrls}
    /\ x_selected_html = <<>>
    /\ x_result = Returned(<<>>)
    /\ x_again = Returned(<<>>)
    /\ NoCallers

MakeLinksAbsoluteCall ==
    /\ x_pc = "ready"
    /\ x_result' = MakeLinksAbsolute(Some(x_html), x_base[1])
    /\ x_pc' = "done"
    /\ UNCHANGED <<x_html, x_selectors, x_base, x_selected_html, x_again>>
    /\ UNCHANGED readerVars
    /\ UNCHANGED callerVars

NextLinks == MakeLinksAbsoluteCall

SpecLinks == InitLinks /\ [][NextLinks]_vars

-----------------------------------------------------------------------------
(* The journal code of _get_selectors and _load_html run by two callers at *)
(* a time: the whole-file read is one step, the test with the whole-file   *)
(* write another                                                           *)

\* what a caller has to record: an unmatched URL, or an exhausted URL with
\* the errors of its fetch
JournalCalls ==
    {[journal |-> "unconfigured", url |-> u, errors |-> <<>>] : u \in LoadUrls}
    \cup {[journal |-> "errored", url |-> u, errors |-> <<text>>] :
              u \in LoadUrls, text \in ErrorTexts}

\* self.unconfigured_urls_output_file, self.errored_urls_output_file
JournalFile(journal) ==
    IF journal = "unconfigured" THEN unconfigured_file ELSE errored_file

\* variant: only the new entry is dumped
JournalWriteOnlyNew(urls, call) ==
    [wrote |-> TRUE,
     file |-> [exists |-> TRUE,
               entries |-> IF call.journal = "unconfigured"
                           THEN <<[url |-> call.url]>>
                           ELSE <<[url |-> call.url, errors |-> call.errors]>>]]

\* variant: the test is made on the list read, the entry is appended to the
\* file as it is now
JournalWriteAppending(urls, call) ==
    IF call.url \in {urls[i].url : i \in DOMAIN urls}
    THEN [wrote |-> FALSE, file |-> JournalFile(call.journal)]
    ELSE [wrote |-> TRUE,
          file |-> [exists |-> TRUE,
                    entries |-> Append(ReadJournal(JournalFile(call.journal)),
                                       IF call.journal = "unconfigured"
                                       THEN [url |-> call.url]
                                       ELSE [url |-> call.url,
                                             errors |-> call.errors])]]

\* if url not in [u['url'] for u in urls]: urls.append(..); json.dump(urls, f)
\* -- on the caller's local list
JournalWrite(urls, call) ==
    IF call.journal = "unconfigured"
    THEN RecordUnconfigured([exists |-> TRUE, entries |-> urls], call.url)
    ELSE RecordErrored([exists |-> TRUE, entries |-> urls], call.url, call.errors)

InitJournal == NoReader /\ NoSkim /\ NoCallers

\* try: urls = json.load(f)  except FileNotFoundError: pass
ReadUrls(c) ==
    \E call \in JournalCalls :
        /\ c_pc[c] = "idle"
        /\ c_pc' = [c_pc EXCEPT ![c] = "read"]
        /\ c_call' = [c_call EXCEPT ![c] = call]
        /\ c_urls' = [c_urls EXCEPT ![c] = ReadJournal(JournalFile(call.journal))]
        /\ overlapped' =
               (overlapped \/ \E d \in Callers \ {c} :
                                 c_pc[d] = "read" /\ c_call[d].journal = call.journal)
        /\ UNCHANGED recorded
        /\ UNCHANGED readerVars
        /\ UNCHANGED skimVars

\* the membership test and, for a new URL, the dump of the local list
DumpUrls(c) ==
    LET call == c_call[c]
        written == JournalWrite(c_urls[c], call)
    IN  /\ c_pc[c] = "read"
        /\ unconfigured_file' =
               IF call.journal = "unconfigured" /\ written.wrote
               THEN written.file ELSE unconfigured_file
        /\ errored_file' =
               IF call.journal = "errored" /\ written.wrote
               THEN written.file ELSE errored_file
        /\ wrote_unconfigured' = (call.journal = "unconfigured" /\ written.wrote)
        /\ wrote_errored' = (call.journal = "errored" /\ written.wrote)
        /\ c_pc' = [c_pc EXCEPT ![c] = "idle"]
        /\ c_call' = [c_call EXCEPT ![c] = NoCall]
        /\ c_urls' = [c_urls EXCEPT ![c] = <<>>]
        /\ recorded' = recorded \cup {[journal |-> call.journal, url |-> call.url]}
        /\ UNCHANGED overlapped
        /\ UNCHANGED <<url_configs, url_configs_file, html_string, html_url, url,
                       constructed, pc, selectors, max_retries, attempt, errors,
                       outcome, asked, fetch_ret, failures, attempts, sleeps,
                       flushed, insert_order, called>>
        /\ UNCHANGED skimVars

NextJournal == \E c \in Callers : ReadUrls(c) \/ DumpUrls(c)

SpecJournal == InitJournal /\ [][NextJournal]_vars

-----------------------------------------------------------------------------
(* Properties of _skim_relevant (checked under SpecSkim) *)

SkimDone == x_pc \in {"done", "again"}

SkimSource == BeautifulSoup(x_html)

\* the elements of a soup that lie in no other element, in document order
TopLevel(soup) ==
    LET F[n \in 0..Len(soup)] ==
            IF n = 0 THEN <<>>
            ELSE IF soup[n].depth = 0 THEN Append(F[n - 1], n) ELSE F[n - 1]
    IN  F[Len(soup)]

\* (k, i): element i of the source matches the k-th include selector
IncludeHits ==
    {h \in (DOMAIN x_selectors.include_selectors) \X (DOMAIN SkimSource) :
        Matches(x_selectors.include_selectors[h[1]], SkimSource[h[2]])}

\* the place of a hit: selectors in list order, then document order
HitRank(h) ==
    1 + Cardinality({g \in IncludeHits :
                        g[1] < h[1] \/ (g[1] = h[1] /\ g[2] < h[2])})

\* C1: the output of the extraction holds no element that matches a
\* selector of the rule's remove list -- the removals of all the remove
\* selectors are applied, one after the other, to the same reduced document.
C1_NoExcludedElementLeft ==
    (SkimDone /\ x_result.raised = "") =>
        \A k \in DOMAIN x_selectors.remove_selectors :
            Select(BeautifulSoup(x_result.value),
                   x_selectors.remove_selectors[k]) = <<>>

\* C10: the reduced document of the include stage is the concatenation, over
\* the include selectors in list order, of the elements matching each selector
\* in document order: its top-level elements are exactly those matches, a
\* selector without a match adds nothing, no include selector gives the
\* empty document.
C10_ReducedIsConcatenationOfMatches ==
    SkimDone =>
        LET reduced == BeautifulSoup(x_selected_html)
            tops == TopLevel(reduced)
        IN  /\ Len(tops) = Cardinality(IncludeHits)
            /\ \A h \in IncludeHits :
                   Subtree(reduced, tops[HitRank(h)]) = Subtree(SkimSource, h[2])
            /\ x_selectors.include_selectors = <<>> => x_selected_html = <<>>

\* two include selectors, a later element matched by the first selector and
\* an earlier one by the second, a selector with two matches
C10_Witness ==
    /\ SkimDone
    /\ Len(x_selectors.include_selectors) = 2
    /\ \E g, h \in IncludeHits : g[1] = 1 /\ h[1] = 2 /\ h[2] < g[2]
    /\ \E g, h \in IncludeHits : g[1] = h[1] /\ g[2] # h[2]
    /\ x_selected_html # <<>>

\* the construction found no file at the path of the URL configurations
ConfigMissing == constructed = "FileNotFoundError"

NoEngineWithoutConfigFile ==
    /\ url_configs_file = MissingFile => ConfigMissing
    /\ ConfigMissing =>
          /\ url_configs_file = MissingFile
          /\ url_configs = <<>>
          /\ html_string = None /\ url = None
          /\ selectors = None /\ asked = None /\ called = None

\* C15: constructing a reader when the URL configurations file does not
\* exist raises FileNotFoundError and leaves no reader to call: no rule is
\* in a table, no call is made, and the configurations file and both
\* journals are as they were (the file still missing, nothing written).
C15_MissingConfigFileAbortsConstruction ==
    /\ []NoEngineWithoutConfigFile
    /\ [][ConfigMissing' =>
              /\ url_configs_file' = url_configs_file
              /\ unconfigured_file' = unconfigured_file
              /\ errored_file' = errored_file
              /\ ~wrote_unconfigured' /\ ~wrote_errored' /\ ~flushed']_vars

\* a construction that failed for want of the file
C15_Witness ==
    /\ ConfigMissing
    /\ url_configs_file = MissingFile
    /\ unconfigured_file = NoFile /\ errored_file = NoFile

\* the rule that takes the paragraphs and drops the advertisements
RuleParagraphsNoAds ==
    [include_selectors |-> <<"p">>, remove_selectors |-> <<"p.ad">>]

IsAd(node) == node.tag = "p" /\ node.cls = "ad"

\* the elements of a soup that are no advertisement and lie in none
OutsideAds(soup) ==
    {i \in DOMAIN soup :
        /\ ~IsAd(soup[i])
        /\ \A j \in 1..(i - 1) : IsAd(soup[j]) => SubtreeEnd(soup, j) < i}

\* the element i of the source as it is without advertisements
WithoutAds(soup, i) ==
    LET whole == Subtree(soup, i)
        F[n \in 0..Len(whole)] ==
            IF n = 0 THEN <<>>
            ELSE IF n \in OutsideAds(whole) THEN Append(F[n - 1], whole[n])
            ELSE F[n - 1]
    IN  F[Len(whole)]

\* the paragraphs of the source that are no advertisement, in document order
PlainParagraphs ==
    LET F[n \in 0..Len(SkimSource)] ==
            IF n = 0 THEN <<>>
            ELSE IF SkimSource[n].tag = "p" /\ ~IsAd(SkimSource[n])
                 THEN Append(F[n - 1], n)
            ELSE F[n - 1]
    IN  F[Len(SkimSource)]

\* C14: with include_selectors ["p"] and remove_selectors ["p.ad"], the
\* result of _skim_relevant holds every paragraph of the source that is no
\* advertisement and no advertisement paragraph; _skim_relevant applied
\* again, to that result and with the same rule, gives a document with no
\* advertisement paragraph and with no element that the first result did
\* not hold.
C14_ParagraphsKeptAdsGoneNothingResurrected ==
    (SkimDone /\ x_selectors = RuleParagraphsNoAds) =>
        /\ x_result.raised = ""
        /\ LET first == BeautifulSoup(x_result.value)
               second == BeautifulSoup(x_again.value)
           IN  /\ \A i \in DOMAIN first : ~IsAd(first[i])
               /\ \A k \in DOMAIN PlainParagraphs :
                     \E j \in DOMAIN first :
                         /\ first[j].depth = 0
                         /\ Subtree(first, j) = WithoutAds(SkimSource, PlainParagraphs[k])
               /\ x_pc = "again" =>
                     /\ x_again.raised = ""
                     /\ \A j \in DOMAIN second : ~IsAd(second[j])
                     /\ \A j \in DOMAIN second :
                           \E i \in DOMAIN first :
                               Subtree(second, j) = Subtree(first, i)

\* the second application, for a source with a plain paragraph inside an
\* advertisement and an advertisement inside a plain paragraph
C14_Witness ==
    /\ x_pc = "again"
    /\ x_selectors = RuleParagraphsNoAds
    /\ x_again.raised = ""
    /\ x_again.value # <<>>
    /\ \E i, j \in DOMAIN SkimSource :
          /\ IsAd(SkimSource[i])
          /\ SkimSource[j].tag = "p" /\ ~IsAd(SkimSource[j])
          /\ i < j /\ j <= SubtreeEnd(SkimSource, i)
    /\ \E i, j \in DOMAIN SkimSource :
          /\ SkimSource[i].tag = "p" /\ ~IsAd(SkimSource[i])
          /\ IsAd(SkimSource[j])
          /\ i < j /\ j <= SubtreeEnd(SkimSource, i)

-----------------------------------------------------------------------------
(* Properties of _make_links_absolute (checked under SpecLinks) *)

LinksDone == x_pc = "done" /\ x_base # None

LinksSource == BeautifulSoup(x_html)

\* a reference that names its scheme and authority
IsAbsolute(reference) == reference # <<>> /\ Head(reference) \in Origins

\* what a relative reference stands for at the base URL: a rooted path is
\* taken from the base's scheme and authority, any other path from the
\* place of the base's last path segment
ResolvedAt(base, reference) ==
    IF Head(reference) = "/" THEN <<Head(base)>> \o reference
    ELSE IF Len(base) = 1 THEN <<Head(base), "/">> \o reference
    ELSE SubSeq(base, 1, Len(base) - 1) \o reference

\* C13: _make_links_absolute replaces the href of every <a href> element
\* whose reference is relative by the absolute URL it resolves to at the
\* base URL (href="/a/b" at https://x.test/c/d becomes https://x.test/a/b),
\* leaves an href that is absolute as it is, and leaves every other
\* element, and the nesting of all elements, as they are.
C13_RelativeLinksMadeAbsolute ==
    LinksDone =>
        /\ x_result.raised = ""
        /\ LET made == BeautifulSoup(x_result.value)
               base == x_base[1]
           IN  /\ Len(made) = Len(LinksSource)
               /\ \A i \in DOMAIN LinksSource :
                     LET was == LinksSource[i]
                     IN  IF was.tag = "a" /\ was.href # None
                         THEN /\ made[i] = [was EXCEPT !.href = made[i].href]
                              /\ made[i].href =
                                     IF IsAbsolute(was.href[1]) THEN was.href
                                     ELSE Some(ResolvedAt(base, was.href[1]))
                              /\ (base = <<"https://x.test", "/", "c", "/", "d">>
                                     /\ was.href = Some(<<"/", "a", "/", "b">>)) =>
                                     made[i].href
                                         = Some(<<"https://x.test", "/", "a", "/", "b">>)
                         ELSE made[i] = was

\* at https://x.test/c/d, a document with a rooted link inside another
\* element, an absolute link and an element that is no link
C13_Witness ==
    /\ LinksDone
    /\ x_base = Some(<<"https://x.test", "/", "c", "/", "d">>)
    /\ x_result.raised = ""
    /\ \E i, j, k \in DOMAIN LinksSource :
          /\ LinksSource[i].href = Some(<<"/", "a", "/", "b">>)
          /\ LinksSource[i].depth > 0
          /\ LinksSource[j].href # None /\ IsAbsolute(LinksSource[j].href[1])
          /\ LinksSource[k].href = None
          /\ BeautifulSoup(x_result.value)[i].href
                 = Some(<<"https://x.test", "/", "a", "/", "b">>)

-----------------------------------------------------------------------------
(* Properties of the rule table and of _get_selectors (checked under       *)
(* SpecRules)                                                              *)

\* the places in insert_order of the patterns that occur in u
InsertedMatches(u) == {i \in DOMAIN insert_order : IsSubstring(insert_order[i], u)}

\* of those, the pattern registered first
EarliestMatch(u) ==
    LET hits == InsertedMatches(u)
    IN  insert_order[CHOOSE i \in hits : \A j \in hits : i <= j]

\* C2: whatever load and add calls built the table, for every URL in which
\* two registered patterns occur, _get_selectors returns the rule of the
\* pattern registered earliest among those that occur in the URL, never a
\* later one's.
C2_FirstRegisteredPatternWins ==
    /\ \A u \in Urls :
          InsertedMatches(u) # {} =>
              LET got == GetSelectorsReturn(url_configs, u, FALSE)
              IN  got # None /\ got[1].pattern = EarliestMatch(u)
    /\ (asked # None /\ InsertedMatches(asked[1].url) # {}) =>
          /\ selectors # None
          /\ selectors[1].pattern = EarliestMatch(asked[1].url)
          /\ RuleOf(selectors[1]) = RuleOf(DictGet(url_configs, EarliestMatch(asked[1].url)))

\* a call for a URL in which two patterns with different rules occur, after
\* the earlier pattern's rule was replaced in a table that add calls built
C2_Witness ==
    /\ asked # None
    /\ selectors # None
    /\ url_configs_file.json = "object"
    /\ \E i, j \in InsertedMatches(asked[1].url) :
          /\ i < j
          /\ selectors[1].pattern = insert_order[i]
          /\ RuleOf(DictGet(url_configs, insert_order[i]))
                 # RuleOf(DictGet(url_configs, insert_order[j]))

\* C5: after an add or modify call that rewrites the URL configurations
\* file, the file is an ordered list of records {url_pattern,
\* include_selectors, remove_selectors}, and a reader constructed from it
\* has the rule table that was written.
C5_PersistedRulesRoundTrip ==
    flushed =>
        /\ url_configs_file.json = "array"
        /\ LoadUrlConfigsFile(<<>>, url_configs_file) = Returned(url_configs)

\* C9: the rule under the reserved pattern "_default_" is returned only on
\* request: never with include_default false, and with include_default true
\* only when no ordinary pattern occurs in the URL.
C9_DefaultOnlyOnRequest ==
    (asked # None /\ selectors # None /\ selectors[1].pattern = DEFAULT) =>
        /\ asked[1].include_default
        /\ \A key \in Keys(url_configs) \ {DEFAULT} : ~IsSubstring(key, asked[1].url)

\* the step is a call of the named method for a pattern that is a key
CallOnKnownPattern(name) ==
    /\ called' # None
    /\ called'[1].name = name
    /\ called'[1].url_pattern \in Keys(url_configs)

AddNewConfigOnKnownPatternIsNoOp ==
    CallOnKnownPattern("add_new_config") =>
        /\ url_configs' = url_configs
        /\ insert_order' = insert_order

ModifyOnKnownPatternReplacesRule ==
    CallOnKnownPattern("modify_or_add_config") =>
        /\ Keys(url_configs') = Keys(url_configs)
        /\ RuleOf(DictGet(url_configs', called'[1].url_pattern)) = called'[1].rule

\* C11: add_new_config for a pattern that is already in the rule table
\* leaves the table as it was (the patterns, their order, the selector lists
\* of every pattern); modify_or_add_config for such a pattern replaces the
\* pattern's rule by the selector lists of the call.
C11_AddKeepsKnownPatternModifyReplaces ==
    /\ [][AddNewConfigOnKnownPatternIsNoOp]_vars
    /\ [][ModifyOnKnownPatternReplacesRule]_vars

\* add_new_config was called, with a file update, for a pattern of a table of
\* MaxRules entries whose rule differs from the call's
C11_Witness ==
    /\ called # None
    /\ called[1].name = "add_new_config"
    /\ flushed
    /\ Len(url_configs) = MaxRules
    /\ called[1].url_pattern \in Keys(url_configs)
    /\ RuleOf(DictGet(url_configs, called[1].url_pattern)) # called[1].rule

\* a reader as its construction from a list of records left it: no call
\* was made on it yet
JustLoaded ==
    /\ constructed = "ok"
    /\ url_configs_file.json = "array"
    /\ asked = None
    /\ called = None

\* the first record of the file that lists the pattern
FirstRecordWith(url_pattern) ==
    LET records == url_configs_file.records
        lists(i) == \E k \in DOMAIN records[i].url_pattern :
                        records[i].url_pattern[k] = url_pattern
    IN  records[CHOOSE i \in DOMAIN records :
                    lists(i) /\ \A j \in 1..(i - 1) : ~lists(j)]

\* C12: loading the URL configurations file registers every pattern of every
\* record, in record order; a pattern that occurs in several records, or
\* twice in one, has the rule and the place of its first occurrence.
C12_LoadKeepsFirstOccurrence ==
    JustLoaded =>
        /\ [i \in DOMAIN url_configs |-> url_configs[i].pattern]
               = FirstOccurrences(PatternsInOrder(url_configs_file.records))
        /\ \A i \in DOMAIN url_configs :
               RuleOf(url_configs[i]) = RuleOf(FirstRecordWith(url_configs[i].pattern))

\* a file in which a pattern occurs in two records with different rules,
\* the later record listing a new pattern before the repeated one
C12_Witness ==
    /\ JustLoaded
    /\ \E i, j \in DOMAIN url_configs_file.records :
          LET first == url_configs_file.records[i]
              later == url_configs_file.records[j]
          IN  /\ i < j
              /\ RuleOf(first) # RuleOf(later)
              /\ \E k \in DOMAIN later.url_pattern :
                    /\ k > 1
                    /\ later.url_pattern[k] = first.url_pattern[1]
                    /\ RuleOf(DictGet(url_configs, later.url_pattern[k])) = RuleOf(first)

-----------------------------------------------------------------------------
(* Properties of load_website, _load_html and the journals (checked under  *)
(* Spec)                                                                   *)

\* _load_html has just given up: its return None is the last thing done
ExhaustedNow == pc = "idle" /\ fetch_ret.ended = "return None"

\* the step on which _load_html gives up
ExhaustStep == pc = "attempt" /\ pc' = "idle" /\ fetch_ret'.ended = "return None"

\* the step on which _get_selectors is called
ResolveStep == pc = "idle" /\ asked' # None

\* the journal's entry for a URL
JournalEntry(file, u) ==
    ReadJournal(file)[CHOOSE i \in DOMAIN ReadJournal(file) : ReadJournal(file)[i].url = u]

OneEntryPerUrl(file) ==
    \A i, j \in DOMAIN ReadJournal(file) :
        ReadJournal(file)[i].url = ReadJournal(file)[j].url => i = j

RecordingKnownUrlWritesNothing ==
    /\ (ResolveStep /\ asked'[1].url \in JournalUrls(unconfigured_file)) =>
          (unconfigured_file' = unconfigured_file /\ ~wrote_unconfigured')
    /\ (ExhaustStep /\ url[1] \in JournalUrls(errored_file)) =>
          (errored_file' = errored_file /\ ~wrote_errored')

\* C3: whatever unmatched resolutions and exhausted fetches a single caller
\* makes, each journal holds at most one entry per URL, and recording a URL
\* that is already there opens no file for writing and leaves the journal
\* (entries, errors, order) as it was.
C3_JournalsHoldEachUrlOnce ==
    /\ [](OneEntryPerUrl(unconfigured_file) /\ OneEntryPerUrl(errored_file))
    /\ [][RecordingKnownUrlWritesNothing]_vars

\* a second exhausted fetch of a journaled URL, with other errors than the
\* first, while both journals hold entries
C3_Witness ==
    /\ ExhaustedNow
    /\ ~wrote_errored
    /\ Len(ReadJournal(errored_file)) = 2
    /\ JournalEntry(errored_file, url[1]).errors # errors
    /\ ReadJournal(unconfigured_file) # <<>>

\* C4: with max_retries = n, a fetch whose attempts all fail makes exactly
\* n + 1 attempts and ends with exactly n + 1 error descriptions, one per
\* failed attempt and in the order of the attempts, whichever except clause
\* caught each.
C4_ExhaustedAfterAllAttempts ==
    /\ pc \in {"attempt", "sleep"} =>
          (attempts <= max_retries + 1 /\ Len(errors) = attempts)
    /\ ExhaustedNow =>
          /\ attempts = max_retries + 1
          /\ Len(errors) = max_retries + 1
          /\ errors = failures

\* an exhausted fetch with the largest max_retries and two different errors
C4_Witness ==
    /\ ExhaustedNow
    /\ max_retries = MaxRetries
    /\ attempts = MaxRetries + 1
    /\ \E i, j \in DOMAIN errors : errors[i] # errors[j]

NoRuleMeansValueError ==
    /\ (url # None /\ selectors = None) =>
          /\ pc = "idle"
          /\ outcome = "ValueError"
          /\ url[1] \in JournalUrls(unconfigured_file)
          /\ attempts = 0
          /\ fetch_ret = NotReturned
          /\ ~wrote_errored
    /\ outcome = "ValueError" => (url # None /\ selectors = None)

ExhaustedProcessFails ==
    ExhaustedNow =>
        /\ selectors # None
        /\ outcome \notin {"returned", "running", "none"}
        /\ url[1] \in JournalUrls(errored_file)

ExhaustedKeepsMarkupAndJournalsErrors ==
    ExhaustStep =>
        /\ html_string' = html_string
        /\ url[1] \notin JournalUrls(errored_file) =>
              JournalEntry(errored_file', url[1]) = [url |-> url[1], errors |-> errors]

\* C7: when a rule resolves and every fetch attempt fails, load_website
\* fails (no markup returned, the stored markup not overwritten) and the
\* errored journal then has an entry for the URL, which, if the URL was not
\* journaled before, carries exactly this fetch's error list.
C7_ExhaustedFetchFailsAndIsJournaled ==
    /\ []ExhaustedProcessFails
    /\ [][ExhaustedKeepsMarkupAndJournalsErrors]_vars

\* a first exhausted fetch of a URL, after retries, with markup stored by an
\* earlier call
C7_Witness ==
    /\ ExhaustedNow
    /\ wrote_errored
    /\ html_string # None
    /\ Len(errors) >= 2
    /\ outcome = "TypeError"

\* C8 as claimed: the result of an exhausted fetch, as its caller gets it,
\* carries the error list of this attempt sequence, also when the URL is
\* already in the errored journal.
C8_ExhaustedResultCarriesErrors ==
    ExhaustedNow => (fetch_ret.value # None /\ fetch_ret.value[1] = errors)

ExhaustedReturnsNone ==
    ExhaustedNow =>
        /\ fetch_ret.value = None
        /\ wrote_errored => JournalEntry(errored_file, url[1]).errors = errors

\* C8 as amended: an exhausted fetch returns None to its caller, without the
\* error list; the list is kept only in the errored journal, in the entry
\* written when the URL was not journaled yet, and is dropped when the URL
\* is already there.
C8_ExhaustedReturnsNoneErrorsOnlyJournaled ==
    /\ []ExhaustedReturnsNone
    /\ [][(ExhaustStep /\ url[1] \in JournalUrls(errored_file)) =>
              errored_file' = errored_file]_vars

\* an exhausted fetch of a journaled URL whose errors are in no entry
C8_Witness ==
    /\ ExhaustedNow
    /\ fetch_ret.value = None
    /\ ~wrote_errored
    /\ errors # <<>>
    /\ \A i \in DOMAIN ReadJournal(errored_file) :
          ReadJournal(errored_file)[i].errors # errors

-----------------------------------------------------------------------------
(* Properties of the fetch loop (checked under SpecFetch) *)

\* _load_html has just returned the page of a successful attempt
SucceededNow == pc = "idle" /\ fetch_ret.ended = "return html"

\* a fetch is under way
Fetching == pc \in {"attempt", "sleep"}

FetchEndsOneWay ==
    /\ fetch_ret.ended \in {"", "return html", "return None"}
    /\ Fetching => (fetch_ret.ended = "" /\ attempts <= max_retries + 1)
    /\ SucceededNow =>
          /\ fetch_ret.value # None
          /\ attempts = Len(failures) + 1
          /\ attempts \in 1..(max_retries + 1)
          /\ ~wrote_errored
    /\ ExhaustedNow =>
          /\ fetch_ret.value = None
          /\ attempts = max_retries + 1
          /\ Len(failures) = max_retries + 1

\* C16: every fetch ends, and in one of two ways.  It succeeds at the first
\* attempt k (1 <= k <= max_retries + 1) whose urlopen returns: it returns
\* that page, has made exactly k attempts (k - 1 of them failed) and the
\* errored journal is not written; or it is exhausted, and only after
\* max_retries + 1 attempts that all failed.  No step but the one that
\* exhausts a fetch changes the errored journal.
C16_FetchEndsInSuccessOrExhausted ==
    /\ []FetchEndsOneWay
    /\ [][errored_file' # errored_file => ExhaustStep]_vars
    /\ [][(pc = "attempt" /\ SucceededNow') =>
              (attempts' = attempts + 1 /\ failures' = failures)]_vars
    /\ (Fetching ~> (SucceededNow \/ ExhaustedNow))

\* a fetch that succeeds at its last attempt, after MaxRetries failures,
\* while the errored journal holds an earlier entry
C16_Witness ==
    /\ SucceededNow
    /\ max_retries = MaxRetries
    /\ attempts = MaxRetries + 1
    /\ Len(failures) = MaxRetries
    /\ ReadJournal(errored_file) # <<>>

\* C17: _load_html sleeps only between two attempts: after a sleep the loop
\* makes another attempt, and a fetch that ends after m attempts has slept
\* m - 1 times, never after its last attempt.
C17_SleepsOnlyBetweenAttempts ==
    /\ (pc = "attempt" /\ sleeps > 0) => LoopContinues(attempt, max_retries)
    /\ (SucceededNow \/ ExhaustedNow) => sleeps = attempts - 1

-----------------------------------------------------------------------------
(* Properties of the journals (checked under Spec) *)

\* C18 as claimed: _get_selectors adds the URL to the unconfigured journal
\* only when it returns None; when it returns the rule under "_default_"
\* the journal is left as it was.
C18_JournaledOnlyWhenNoRule ==
    wrote_unconfigured => selectors = None

\* no key of the table occurs in the URL
NoPatternOccurs(u) == \A key \in Keys(url_configs) : ~IsSubstring(key, u)

ResolveJournalsWhenNoPatternOccurs ==
    ResolveStep =>
        LET u == asked'[1].url
        IN  IF NoPatternOccurs(u)
            THEN /\ u \in JournalUrls(unconfigured_file')
                 /\ u \notin JournalUrls(unconfigured_file) =>
                       /\ wrote_unconfigured'
                       /\ ReadJournal(unconfigured_file')
                              = Append(ReadJournal(unconfigured_file), [url |-> u])
                 /\ selectors' # None =>
                       (asked'[1].include_default /\ selectors'[1].pattern = DEFAULT)
            ELSE /\ unconfigured_file' = unconfigured_file
                 /\ ~wrote_unconfigured'
                 /\ selectors' # None

\* C18 as amended: _get_selectors adds the URL to the unconfigured journal
\* (unless it is there already) whenever no key of the table occurs in the
\* URL, whether it then returns None or, with include_default, the rule
\* under "_default_"; when a key occurs in the URL the journal is left as
\* it was.
C18_JournaledWheneverNoPatternOccurs ==
    [][ResolveJournalsWhenNoPatternOccurs]_vars

\* a URL newly journaled by the call that returned the rule under "_default_"
C18_Witness ==
    /\ wrote_unconfigured
    /\ asked # None /\ asked[1].include_default
    /\ selectors # None /\ selectors[1].pattern = DEFAULT
    /\ asked[1].url \in JournalUrls(unconfigured_file)
    /\ pc = "attempt"

-----------------------------------------------------------------------------
(* Properties of load_website after the fetch (checked under Spec) *)

\* the exception that _make_links_absolute or _skim_relevant raises for the
\* page, "" when neither raises
ExtractionRaises(page, base, rule) ==
    IF MakeLinksAbsolute(page, base).raised # ""
    THEN MakeLinksAbsolute(page, base).raised
    ELSE SkimRelevant(MakeLinksAbsolute(page, base).value, rule).raised

ExtractionFailureOnlySurfaces ==
    (pc = "attempt" /\ SucceededNow') =>
        LET raised == ExtractionRaises(fetch_ret'.value, url[1], RuleOf(selectors[1]))
        IN  raised # "" =>
                /\ outcome' = raised
                /\ html_string' = html_string
                /\ pc' = "idle"
                /\ attempts' = attempts + 1 /\ sleeps' = sleeps
                /\ unconfigured_file' = unconfigured_file
                /\ errored_file' = errored_file
                /\ ~wrote_unconfigured' /\ ~wrote_errored'

\* C19: when _make_links_absolute or _skim_relevant raises after _load_html
\* returned a page, load_website raises that exception: no further attempt
\* is made, neither journal is written, and html_string keeps the value it
\* had before the call.
C19_ExtractionFailureSurfacedNothingStored ==
    /\ [][ExtractionFailureOnlySurfaces]_vars
    /\ [](SucceededNow => (outcome # "running" /\ ~wrote_errored /\ ~wrote_unconfigured))

\* an extraction that failed on a page fetched at the second attempt, with
\* markup of an earlier call stored and both journals holding entries
C19_Witness ==
    /\ SucceededNow
    /\ outcome = "UnboundLocalError"
    /\ html_string # None
    /\ Len(failures) >= 1
    /\ ReadJournal(unconfigured_file) # <<>>
    /\ ReadJournal(errored_file) # <<>>

JournalsIndependent ==
    /\ ResolveStep =>
          /\ errored_file' = errored_file
          /\ ~wrote_errored'
          /\ (NoPatternOccurs(asked'[1].url)
                 /\ asked'[1].url \notin JournalUrls(unconfigured_file)) =>
                 ReadJournal(unconfigured_file')
                     = Append(ReadJournal(unconfigured_file), [url |-> asked'[1].url])
    /\ ExhaustStep =>
          /\ unconfigured_file' = unconfigured_file
          /\ ~wrote_unconfigured'
          /\ url[1] \notin JournalUrls(errored_file) =>
                 ReadJournal(errored_file')
                     = Append(ReadJournal(errored_file),
                              [url |-> url[1], errors |-> errors])

\* C20: the two journals are independent: a _get_selectors call that finds
\* no pattern writes only the unconfigured journal, an exhausted _load_html
\* writes only the errored journal, and a URL is recorded in a journal
\* whenever that journal does not hold it, whether or not the other does.
C20_JournalsIndependent ==
    [][JournalsIndependent]_vars

\* a URL newly recorded in the errored journal while the unconfigured
\* journal holds it
C20_Witness ==
    /\ ExhaustedNow
    /\ wrote_errored
    /\ url[1] \in JournalUrls(unconfigured_file)
    /\ JournalEntry(errored_file, url[1]).errors = errors

-----------------------------------------------------------------------------
(* Properties of the journals under two callers (checked under SpecJournal) *)

\* the URLs a journal holds now
Journaled(journal) == JournalUrls(JournalFile(journal))

\* C21: two callers that share a journal can lose an update: when their
\* read and write steps interleave, a URL whose recording has ended can be
\* missing from the journal (the state of C21_Witness); as long as no
\* caller reads a journal between another caller's read and write of it,
\* as with a single caller, every URL whose recording has ended is in its
\* journal.
C21_SerialRecordingsKeepEveryEntry ==
    ~overlapped => \A r \in recorded : r.url \in Journaled(r.journal)

\* a lost update: both callers have ended, they recorded two distinct URLs
\* in one journal, and the journal holds only one of them
C21_Witness ==
    /\ \A c \in Callers : c_pc[c] = "idle"
    /\ overlapped
    /\ \E r1, r2 \in recorded :
          /\ r1.journal = r2.journal
          /\ r1.url # r2.url
          /\ r1.url \in Journaled(r1.journal)
          /\ r2.url \notin Journaled(r2.journal)
          /\ Len(ReadJournal(JournalFile(r1.journal))) = 1

-----------------------------------------------------------------------------
(* _skim_relevant with an empty remove list (checked under SpecSkim) *)

\* C22: a call of _skim_relevant whose rule has an empty remove list
\* succeeds, and what it returns is the reduced document of the include
\* stage with nothing taken out of it, as with a remove list whose selectors
\* match nothing.
C22_EmptyRemoveListReturnsReduced ==
    (SkimDone /\ x_selectors.remove_selectors = <<>>) =>
        /\ x_result.raised = ""
        /\ BeautifulSoup(x_result.value) = BeautifulSoup(x_selected_html)

-----------------------------------------------------------------------------
(* self.url, self.html_string and save_html (checked under Spec) *)

\* Path(..).name of the path of a URL: the text after its last "/"
PathName(string) ==
    LET last == string[Len(string)]
    IN  IF last = "/blog" THEN "blog" ELSE last

\* file_path = Path(urlparse(self.url).path).name + ".html"
DerivedFilePath(string) == <<PathName(string), ".html">>

\* save_html(): the file it writes, or the ValueError without markup
SaveHtml(markup, string) ==
    IF markup = None THEN Raised("ValueError")
    ELSE Returned([file_path |-> DerivedFilePath(string[1]), content |-> markup[1]])

\* C23: between load_website calls the stored URL and the stored markup
\* belong together: when html_string holds markup, it is the result of the
\* load_website call made with the URL in self.url, so that save_html writes
\* the markup to the file named after the URL it was extracted from.
C23_StoredMarkupIsOfStoredUrl ==
    (pc = "idle" /\ html_string # None) =>
        /\ html_url = url
        /\ SaveHtml(html_string, url).value.file_path = DerivedFilePath(html_url[1])

-----------------------------------------------------------------------------
(* modify_or_add_config on a pattern of the table (checked under SpecRules) *)

\* the patterns of a table, in key order
PatternOrder(d) == [i \in DOMAIN d |-> d[i].pattern]

\* what _get_selectors returned before and returns after the call: the same
\* pattern wins, and the rule is another one at most where the pattern of
\* the call wins
SameWinner(before, after, call) ==
    /\ (before = None) = (after = None)
    /\ before # None => after[1].pattern = before[1].pattern
    /\ (before # None /\ before[1].pattern # call.url_pattern) => after = before
    /\ (before # None /\ before[1].pattern = call.url_pattern)
           => RuleOf(after[1]) = call.rule

\* a modify_or_add_config step for a known pattern: the key order stays and
\* the same pattern wins, for every URL without the default and for the
\* URLs of the reader's calls with it
OverwriteKeepsPositionAndWinners ==
    CallOnKnownPattern("modify_or_add_config") =>
        /\ PatternOrder(url_configs') = PatternOrder(url_configs)
        /\ \A u \in Urls :
              \A before \in {GetSelectorsReturn(url_configs, u, FALSE)},
                 after \in {GetSelectorsReturn(url_configs', u, FALSE)} :
                  SameWinner(before, after, called'[1])
        /\ \A u \in CallUrls \cup LoadUrls :
              \A before \in {GetSelectorsReturn(url_configs, u, TRUE)},
                 after \in {GetSelectorsReturn(url_configs', u, TRUE)} :
                  SameWinner(before, after, called'[1])

\* C24: modify_or_add_config for a pattern that is in the rule table keeps
\* the pattern's position: for every URL the pattern that wins the
\* resolution is the same before and after the call, and the rule returned
\* changes only for the URLs that the replaced pattern wins.
C24_OverwriteKeepsPosition == [][OverwriteKeepsPositionAndWinners]_vars

\* modify_or_add_config has replaced the rule of the first of two patterns
\* that occur in one URL, the second pattern having another rule
C24_Witness ==
    /\ called # None
    /\ called[1].name = "modify_or_add_config"
    /\ Len(url_configs) >= 2
    /\ url_configs[1].pattern = called[1].url_pattern
    /\ RuleOf(url_configs[1]) = called[1].rule
    /\ RuleOf(url_configs[2]) # called[1].rule
    /\ \E u \in Urls : /\ IsSubstring(url_configs[1].pattern, u)
                       /\ IsSubstring(url_configs[2].pattern, u)

-----------------------------------------------------------------------------
(* The journals under races (checked under SpecJournal) *)

\* C25: however the whole-file reads and writes of two callers that share
\* the journals interleave, every journal on disk, and every list a caller
\* has read from one, holds at most one entry per URL: a race can lose an
\* entry, it never makes a second entry for a URL.
C25_RacesNeverDuplicate ==
    /\ \A journal \in {"unconfigured", "errored"} :
          OneEntryPerUrl(JournalFile(journal))
    /\ \A c \in Callers :
          \A i, j \in DOMAIN c_urls[c] : c_urls[c][i].url = c_urls[c][j].url => i = j

\* a race on one URL: a caller has read a journal in which the URL it is to
\* record was entered after another caller, whose recording of the same URL
\* has ended since, had read it; the journal holds two URLs
C25_Witness ==
    /\ overlapped
    /\ \E c \in Callers :
          /\ c_pc[c] = "read"
          /\ c_call[c].url \notin {c_urls[c][i].url : i \in DOMAIN c_urls[c]}
          /\ c_call[c].url \in Journaled(c_call[c].journal)
          /\ [journal |-> c_call[c].journal, url |-> c_call[c].url] \in recorded
          /\ Len(ReadJournal(JournalFile(c_call[c].journal))) = 2

====
